---- MODULE Spec2Model ----
(***************************************************************************)
(* md2conf command-line front end (src/md2conf/__main__.py): the argparse  *)
(* schema with its custom KwargsAppendAction, the assembly of the options  *)
(* and properties objects, the local/remote dispatch and the handling of   *)
(* requests.exceptions.HTTPError around the remote branch.                 *)
(*                                                                         *)
(* Python strings are modelled as sequences of one-character strings, so   *)
(* that str.split, str.lower and str.upper are computed, not assumed.      *)
(* Python's None is PyNone; any other optional value x is PyVal(x).        *)
(***************************************************************************)
EXTENDS Integers, Sequences, FiniteSets, TLC

\* ------------------------------------------------------------------ bounds
\* longest --headers token, in characters
MaxTokLen == 3
\* longest token list handed to one KwargsAppendAction call in SpecParser
MaxTokens == 2
\* most option occurrences on one command line in Spec
MaxArgs == 3

\* ------------------------------------------------------- Python primitives
PyNone == [isNone |-> TRUE, v |-> <<>>]
PyVal(x) == [isNone |-> FALSE, v |-> x]

\* setattr(namespace, name, val)
SetAttr(ns, name, val) ==
  [n \in (DOMAIN ns) \cup {name} |-> IF n = name THEN val ELSE ns[n]]

\* all sequences over S of length 0..n
SeqUpTo(S, n) == UNION {[1..k -> S] : k \in 0..n}

LowerOf ==
  [A |-> "a", B |-> "b", C |-> "c", D |-> "d", E |-> "e", F |-> "f",
   G |-> "g", I |-> "i", L |-> "l", N |-> "n", O |-> "o", R |-> "r",
   S |-> "s", T |-> "t", U |-> "u", W |-> "w"]

UpperOf ==
  [a |-> "A", b |-> "B", c |-> "C", d |-> "D", e |-> "E", f |-> "F",
   g |-> "G", i |-> "I", l |-> "L", n |-> "N", o |-> "O", r |-> "R",
   s |-> "S", t |-> "T", u |-> "U", w |-> "W"]

\* str.lower()
Lower(s) == [i \in 1..Len(s) |-> IF s[i] \in DOMAIN LowerOf THEN LowerOf[s[i]] ELSE s[i]]

\* str.upper()
Upper(s) == [i \in 1..Len(s) |-> IF s[i] \in DOMAIN UpperOf THEN UpperOf[s[i]] ELSE s[i]]

\* x.split("="): x cut at EVERY "=", the pieces in order (always at least one)
RECURSIVE SplitFrom(_, _, _)
SplitFrom(x, i, cur) ==
  IF i > Len(x) THEN <<cur>>
  ELSE IF x[i] = "=" THEN <<cur>> \o SplitFrom(x, i + 1, <<>>)
  ELSE SplitFrom(x, i + 1, Append(cur, x[i]))

Split(x) == SplitFrom(x, 1, <<>>)

\* dict(pairs) raises ValueError unless every element has exactly two items
DictRaises(pairs) == \E i \in 1..Len(pairs) : Len(pairs[i]) # 2

\* dict(pairs): the key of each pair mapped to the value of its LAST pair
DictOf(pairs) ==
  [k \in {pairs[i][1] : i \in 1..Len(pairs)} |->
     LET last == CHOOSE i \in 1..Len(pairs) :
                   /\ pairs[i][1] = k
                   /\ \A j \in (i + 1)..Len(pairs) : pairs[j][1] # k
     IN pairs[last][2]]

\* map(lambda x: x.split("="), values)
SplitAll(values) == [i \in 1..Len(values) |-> Split(values[i])]

\* ------------------------------------------------------------ logging
DEBUG == 10
INFO == 20
WARN == 30
ERROR == 40
CRITICAL == 50

\* logging.getLevelName(level) for the five levels main passes (WARN is 30,
\* whose registered name is "WARNING")
getLevelName(level) ==
  CASE level = DEBUG -> <<"D", "E", "B", "U", "G">>
    [] level = INFO -> <<"I", "N", "F", "O">>
    [] level = WARN -> <<"W", "A", "R", "N", "I", "N", "G">>
    [] level = ERROR -> <<"E", "R", "R", "O", "R">>
    [] level = CRITICAL -> <<"C", "R", "I", "T", "I", "C", "A", "L">>

\* getattr(logging, name, logging.INFO) for the level names of the module
LoggingAttr(name) ==
  CASE name = <<"D", "E", "B", "U", "G">> -> DEBUG
    [] name = <<"I", "N", "F", "O">> -> INFO
    [] name = <<"W", "A", "R", "N">> -> WARN
    [] name = <<"W", "A", "R", "N", "I", "N", "G">> -> WARN
    [] name = <<"E", "R", "R", "O", "R">> -> ERROR
    [] name = <<"C", "R", "I", "T", "I", "C", "A", "L">> -> CRITICAL
    [] OTHER -> INFO

\* the choices without .lower(): the level names as logging spells them
LoglevelChoices_NoLower ==
  {getLevelName(lv) : lv \in {DEBUG, INFO, WARN, ERROR, CRITICAL}}

\* choices=[logging.getLevelName(level).lower() for level in (...)]
LoglevelChoices ==
  {Lower(getLevelName(level)) : level \in {DEBUG, INFO, WARN, ERROR, CRITICAL}}

\* default=logging.getLevelName(logging.INFO)
LoglevelDefault == getLevelName(INFO)

\* default of --generated-by
DefaultBanner ==
  <<"T", "h", "i", "s", " ", "p", "a", "g", "e", " ", "h", "a", "s", " ",
    "b", "e", "e", "n", " ", "g", "e", "n", "e", "r", "a", "t", "e", "d", " ",
    "w", "i", "t", "h", " ", "a", " ", "t", "o", "o", "l", ".">>

\* ------------------------------------------------------------ inputs
\* characters of --headers tokens
Chars == {"a", "="}

Tokens == SeqUpTo(Chars, MaxTokLen) \ {<<>>}

\* token lists given to --headers on a full command line
HeaderArgs ==
  { <<>>,
    << <<"a", "=", "a">> >>,
    << <<"a", "=">> >>,
    << <<"a", "a", "=">> >>,
    << <<"=", "a">> >>,
    << <<"a">> >>,
    << <<"a", "=", "=">> >>,
    << <<"a", "=", "a">>, <<"a", "a", "=">> >> }

\* values given to --loglevel
LoglevelArgs ==
  { <<"d", "e", "b", "u", "g">>, <<"D", "E", "B", "U", "G">>,
    <<"i", "n", "f", "o">>,
    <<"w", "a", "r", "n">>, <<"W", "a", "r", "n">>,
    <<"w", "a", "r", "n", "i", "n", "g">>,
    <<"e", "r", "r", "o", "r">>,
    <<"c", "r", "i", "t", "i", "c", "a", "l">>,
    <<"b", "o", "g", "u", "s">> }

\* values given to --generated-by
BannerArgs == { <<>>, <<"b", "y">> }

\* ------------------------------------------------------------ state
VARIABLES
  pc,         \* position in main
  argv,       \* the option occurrences consumed so far, in order
  args,       \* the Arguments namespace: attribute name -> value
  level,      \* root logger level (WARNING until logging.basicConfig sets it)
  options,    \* ConfluenceDocumentOptions handed to the collaborators
  properties, \* ConfluenceProperties handed to the collaborators
  calls,      \* how often each collaborator operation was invoked
  err,        \* the exception in flight: kind and its response
  log,        \* logging calls made by main, in order
  stderr,     \* the message parser.error() wrote, "" if none
  outcome     \* how the process ended

vars == <<pc, argv, args, level, options, properties, calls, err, log, stderr, outcome>>

NoErr == [kind |-> "none", response |-> "none"]
NoCalls == [process |-> 0, open |-> 0, synchronize |-> 0, close |-> 0]

\* an option occurrence on the command line
Occ(opt, arg) == [opt |-> opt, arg |-> arg]

\* the two declarations of generated_by in the other order
ParserActions_NegationFirst ==
  << [dest |-> "mdpath", default |-> PyNone],
     [dest |-> "loglevel", default |-> LoglevelDefault],
     [dest |-> "generated_by", default |-> PyNone],
     [dest |-> "generated_by", default |-> PyVal(DefaultBanner)],
     [dest |-> "render_mermaid", default |-> TRUE],
     [dest |-> "render_mermaid", default |-> TRUE],
     [dest |-> "local", default |-> FALSE],
     [dest |-> "headers", default |-> PyNone] >>

\* the declared actions that own a destination, in add_argument order, with
\* the default each one carries
ParserActions ==
  << [dest |-> "mdpath", default |-> PyNone],
     [dest |-> "loglevel", default |-> LoglevelDefault],
     [dest |-> "generated_by", default |-> PyVal(DefaultBanner)],
     [dest |-> "generated_by", default |-> PyNone],
     [dest |-> "render_mermaid", default |-> TRUE],
     [dest |-> "render_mermaid", default |-> TRUE],
     [dest |-> "local", default |-> FALSE],
     [dest |-> "headers", default |-> PyNone] >>

\* parse_args: for each action in order, the default is stored only if the
\* namespace has no such attribute yet
RECURSIVE SetDefaults(_, _, _)
SetDefaults(actions, ns, i) ==
  IF i > Len(actions) THEN ns
  ELSE SetDefaults(actions,
                   IF actions[i].dest \in DOMAIN ns THEN ns
                   ELSE SetAttr(ns, actions[i].dest, actions[i].default),
                   i + 1)

\* args = Arguments(): a namespace with no attribute
Init ==
  /\ pc = "start"
  /\ argv = <<>>
  /\ args = <<>>
  /\ level = WARN
  /\ options = PyNone
  /\ properties = PyNone
  /\ calls = NoCalls
  /\ err = NoErr
  /\ log = <<>>
  /\ stderr = ""
  /\ outcome = "running"

\* ------------------------------------------------------------ parse_args
\* parse_args starts by storing the defaults into the namespace
ParseArgsBegin ==
  /\ pc = "start"
  /\ args' = SetDefaults(ParserActions, args, 1)
  /\ pc' = "parsing"
  /\ UNCHANGED <<argv, level, options, properties, calls, err, log, stderr, outcome>>

\* the parser takes the next option occurrence from the command line
Consume(opt, arg) ==
  /\ pc = "parsing"
  /\ Len(argv) < MaxArgs
  /\ argv' = Append(argv, Occ(opt, arg))
  /\ UNCHANGED <<level, options, properties, calls, err, log>>

\* parser.error(): usage and message on stderr, exit status 2
ParserError(message) ==
  /\ pc' = "exited"
  /\ outcome' = "exit2"
  /\ stderr' = message
  /\ UNCHANGED args

\* the action ran; parsing goes on
Stored(dest, val) ==
  /\ args' = SetAttr(args, dest, val)
  /\ UNCHANGED <<pc, stderr, outcome>>

\* KwargsAppendAction.__call__ for one --headers occurrence; the
\* ArgumentError it raises is turned into parser.error() by parse_args
KwargsAppendAction(values) ==
  /\ Consume("--headers", values)
  /\ IF DictRaises(SplitAll(values))
     THEN ParserError("argument --headers: Could not parse argument")
     ELSE Stored("headers", PyVal(DictOf(SplitAll(values))))

\* -l/--loglevel VALUE: the choices check, then store
StoreLoglevel(value) ==
  /\ Consume("--loglevel", <<value>>)
  /\ IF value \notin LoglevelChoices
     THEN ParserError("argument -l/--loglevel: invalid choice")
     ELSE Stored("loglevel", value)

\* --generated-by TEXT
StoreGeneratedBy(text) ==
  /\ Consume("--generated-by", <<text>>)
  /\ Stored("generated_by", PyVal(text))

\* --no-generated-by: store_const, const=None
StoreConstNoGeneratedBy ==
  /\ Consume("--no-generated-by", <<>>)
  /\ Stored("generated_by", PyNone)

\* --render-mermaid: store_true
StoreTrueRenderMermaid ==
  /\ Consume("--render-mermaid", <<>>)
  /\ Stored("render_mermaid", TRUE)

\* --no-render-mermaid: store_false
StoreFalseNoRenderMermaid ==
  /\ Consume("--no-render-mermaid", <<>>)
  /\ Stored("render_mermaid", FALSE)

\* --local: store_true
StoreTrueLocal ==
  /\ Consume("--local", <<>>)
  /\ Stored("local", TRUE)

\* --version: prints the version and exits with status 0
Version ==
  /\ Consume("--version", <<>>)
  /\ pc' = "exited"
  /\ outcome' = "exit0"
  /\ UNCHANGED <<args, stderr>>

\* the command line is exhausted: the required positional mdpath is either
\* there (and stored) or missing (parser.error)
ParseArgsEnd(mdpathGiven) ==
  /\ pc = "parsing"
  /\ IF mdpathGiven
     THEN /\ args' = SetAttr(args, "mdpath", PyVal(<<"f", ".", "m", "d">>))
          /\ pc' = "parsed"
          /\ UNCHANGED <<stderr, outcome>>
     ELSE ParserError("the following arguments are required: mdpath")
  /\ UNCHANGED <<argv, level, options, properties, calls, err, log>>

\* ------------------------------------------------------------ main
\* logging.basicConfig, then the two configuration objects
Configure ==
  /\ pc = "parsed"
  /\ level' = LoggingAttr(Upper(args.loglevel))
  /\ options' = PyVal([generated_by |-> args.generated_by,
                       render_mermaid |-> args.render_mermaid])
  /\ properties' = PyVal([headers |-> args.headers])
  /\ pc' = "dispatch"
  /\ UNCHANGED <<argv, args, calls, err, log, stderr, outcome>>

\* what a collaborator call can do: return, or raise an HTTPError (without
\* a response, with a JSON body, with a body that is not JSON), or raise
\* something else
Results ==
  { [kind |-> "none", response |-> "none"],
    [kind |-> "HTTPError", response |-> "none"],
    [kind |-> "HTTPError", response |-> "json"],
    [kind |-> "HTTPError", response |-> "notjson"],
    [kind |-> "Other", response |-> "none"] }

Called(op) == [calls EXCEPT ![op] = @ + 1]

\* an exception leaves main uncaught
Propagate ==
  /\ pc' = "exited"
  /\ outcome' = "raised"

\* main returns
Return ==
  /\ pc' = "exited"
  /\ outcome' = "returned"

\* the local call placed inside the try block: its HTTPError is caught too
LocalProcess_InsideTry(result) ==
  /\ pc = "dispatch"
  /\ args.local
  /\ calls' = Called("process")
  /\ err' = result
  /\ CASE result.kind = "none" -> Return
       [] result.kind = "HTTPError" -> pc' = "except" /\ UNCHANGED outcome
       [] OTHER -> Propagate
  /\ UNCHANGED <<argv, args, level, options, properties, log, stderr>>

\* if args.local: Processor(options, properties).process(args.mdpath)
LocalProcess(result) ==
  /\ pc = "dispatch"
  /\ args.local
  /\ calls' = Called("process")
  /\ err' = result
  /\ IF result.kind = "none" THEN Return ELSE Propagate
  /\ UNCHANGED <<argv, args, level, options, properties, log, stderr>>

\* the remote branch taken without testing args.local
OpenAPI_IgnoresLocal ==
  /\ pc = "dispatch"
  /\ calls' = Called("open")
  /\ pc' = "with"
  /\ UNCHANGED <<argv, args, level, options, properties, err, log, stderr, outcome>>

\* else: with ConfluenceAPI(properties) as api
OpenAPI ==
  /\ pc = "dispatch"
  /\ ~args.local
  /\ calls' = Called("open")
  /\ pc' = "with"
  /\ UNCHANGED <<argv, args, level, options, properties, err, log, stderr, outcome>>

\* Application(api, options).synchronize(args.mdpath)
Synchronize(result) ==
  /\ pc = "with"
  /\ calls' = Called("synchronize")
  /\ err' = result
  /\ pc' = "leave"
  /\ UNCHANGED <<argv, args, level, options, properties, log, stderr, outcome>>

\* open/close written without a with block: close is skipped by an exception
CloseAPI_OnlyOnSuccess ==
  /\ pc = "leave"
  /\ calls' = IF err.kind = "none" THEN Called("close") ELSE calls
  /\ CASE err.kind = "none" -> Return
       [] err.kind = "HTTPError" -> pc' = "except" /\ UNCHANGED outcome
       [] OTHER -> Propagate
  /\ UNCHANGED <<argv, args, level, options, properties, err, log, stderr>>

\* the with block is left, normally or by an exception: __exit__ runs, then
\* control goes to the end of main, to the except clause, or out of main
CloseAPI ==
  /\ pc = "leave"
  /\ calls' = Called("close")
  /\ CASE err.kind = "none" -> Return
       [] err.kind = "HTTPError" -> pc' = "except" /\ UNCHANGED outcome
       [] OTHER -> Propagate
  /\ UNCHANGED <<argv, args, level, options, properties, err, log, stderr>>

\* except requests.exceptions.HTTPError as err: logging.error(err)
LogError ==
  /\ pc = "except"
  /\ log' = Append(log, [severity |-> ERROR, msg |-> "err"])
  /\ pc' = "response"
  /\ UNCHANGED <<argv, args, level, options, properties, calls, err, stderr, outcome>>

\* the body logged without the try/except around response.json()
LogResponse_NoCatch ==
  /\ pc = "response"
  /\ log' = IF err.response = "json"
            THEN Append(log, [severity |-> ERROR, msg |-> "body"])
            ELSE log
  /\ IF err.response = "notjson"
     THEN Propagate
     ELSE pc' = "sysexit" /\ UNCHANGED outcome
  /\ UNCHANGED <<argv, args, level, options, properties, calls, err, stderr>>

\* if err.response is not None: try logging.error(err.response.json())
\* except JSONDecodeError: pass
LogResponse ==
  /\ pc = "response"
  /\ log' = IF err.response = "json"
            THEN Append(log, [severity |-> ERROR, msg |-> "body"])
            ELSE log
  /\ pc' = "sysexit"
  /\ UNCHANGED <<argv, args, level, options, properties, calls, err, stderr, outcome>>

\* sys.exit(1)
SysExit ==
  /\ pc = "sysexit"
  /\ pc' = "exited"
  /\ outcome' = "exit1"
  /\ UNCHANGED <<argv, args, level, options, properties, calls, err, log, stderr>>

\* ------------------------------------------------------------ specifications
Next ==
  \/ ParseArgsBegin
  \/ \E values \in HeaderArgs : KwargsAppendAction(values)
  \/ \E value \in LoglevelArgs : StoreLoglevel(value)
  \/ \E text \in BannerArgs : StoreGeneratedBy(text)
  \/ StoreConstNoGeneratedBy
  \/ StoreTrueRenderMermaid
  \/ StoreFalseNoRenderMermaid
  \/ StoreTrueLocal
  \/ Version
  \/ \E mdpathGiven \in BOOLEAN : ParseArgsEnd(mdpathGiven)
  \/ Configure
  \/ \E result \in Results : LocalProcess(result)
  \/ OpenAPI
  \/ \E result \in Results : Synchronize(result)
  \/ CloseAPI
  \/ LogError
  \/ LogResponse
  \/ SysExit

Spec == Init /\ [][Next]_vars

\* the header parser alone: one --headers occurrence with any token list,
\* applied to the namespace that holds the defaults
InitParser ==
  /\ pc = "parsing"
  /\ argv = <<>>
  /\ args = SetDefaults(ParserActions, <<>>, 1)
  /\ level = WARN
  /\ options = PyNone
  /\ properties = PyNone
  /\ calls = NoCalls
  /\ err = NoErr
  /\ log = <<>>
  /\ stderr = ""
  /\ outcome = "running"

NextParser ==
  \E values \in SeqUpTo(Tokens, MaxTokens) :
    /\ argv = <<>>
    /\ KwargsAppendAction(values)

SpecParser == InitParser /\ [][NextParser]_vars

\* ------------------------------------------------------------ properties
\* positions of the occurrences of the given options on the command line
Where(opts) == {i \in 1..Len(argv) : argv[i].opt \in opts}

Given(opt) == Where({opt}) # {}

\* the last occurrence among the given options (one must be there)
LastOf(opts) == argv[CHOOSE i \in Where(opts) : \A j \in Where(opts) : j <= i]

\* parse_args has stored the defaults
Parsing == pc # "start"

\* parse_args has returned and main has built options and properties
Configured == pc \notin {"start", "parsing", "parsed"} /\ outcome \notin {"exit0", "exit2"}

\* the run got past argument parsing and has ended
Ended == pc = "exited" /\ outcome \in {"returned", "raised", "exit1"}

HeadersRejected == stderr = "argument --headers: Could not parse argument"

LoglevelRejected == stderr = "argument -l/--loglevel: invalid choice"

\* a token divided on its FIRST "="
HasEq(x) == \E i \in 1..Len(x) : x[i] = "="

FirstEq(x) == CHOOSE i \in 1..Len(x) : x[i] = "=" /\ \A j \in 1..(i - 1) : x[j] # "="

KeyOf(x) == SubSeq(x, 1, FirstEq(x) - 1)

ValueOf(x) == SubSeq(x, FirstEq(x) + 1, Len(x))

WellFormed(x) == HasEq(x) /\ KeyOf(x) # <<>>

\* the map the tokens denote: each key with the value of its last token
MapOf(values) ==
  [k \in {KeyOf(values[i]) : i \in 1..Len(values)} |->
     ValueOf(values[CHOOSE i \in 1..Len(values) :
                      /\ KeyOf(values[i]) = k
                      /\ \A j \in (i + 1)..Len(values) : KeyOf(values[j]) # k])]

\* C1: every list of tokens that each have a non-empty key before their
\* first "=" (the value may be empty or hold further "=") is parsed without
\* error into exactly the map of those keys and values, the last occurrence
\* of a key winning.
C1_WellFormedParsed ==
  (Len(argv) = 1 /\ argv[1].opt = "--headers"
     /\ \A i \in 1..Len(argv[1].arg) : WellFormed(argv[1].arg[i]))
  => /\ outcome = "running"
     /\ args.headers = PyVal(MapOf(argv[1].arg))

\* C2: a list holding a token without "=" or with an empty key fails the
\* parse as a whole with an argument error, and the headers field stays as
\* it was before the call.
C2_MalformedRejected ==
  (Len(argv) = 1 /\ argv[1].opt = "--headers"
     /\ \E i \in 1..Len(argv[1].arg) : ~WellFormed(argv[1].arg[i]))
  => /\ outcome = "exit2"
     /\ HeadersRejected
     /\ args.headers = PyNone

\* C3: a run that gets past argument parsing invokes exactly one
\* collaborator: with --local the Local Renderer, and the Remote Publisher
\* is never opened nor synchronized; without --local the Remote Publisher
\* is opened and synchronized and the Local Renderer is never invoked.
C3_DispatchExclusive ==
  /\ Given("--local") => calls.open = 0 /\ calls.synchronize = 0
  /\ ~Given("--local") => calls.process = 0
  /\ calls.process + calls.open <= 1
  /\ Ended => IF Given("--local")
              THEN calls.process = 1
              ELSE calls.open = 1 /\ calls.synchronize = 1

C3_Witness ==
  /\ Ended
  /\ Given("--local")
  /\ Given("--headers")
  /\ calls.process = 1

\* C4: an HTTPError out of the remote branch is logged at error severity,
\* the decoded body is logged after it when there is a response whose body
\* decodes, nothing more is logged when there is no response or the body
\* does not decode, and the process then ends with exit status 1.
C4_ErrorSurface ==
  (calls.synchronize = 1 /\ err.kind = "HTTPError")
  => /\ pc = "exited" =>
          /\ outcome = "exit1"
          /\ log = IF err.response = "json"
                   THEN << [severity |-> ERROR, msg |-> "err"],
                           [severity |-> ERROR, msg |-> "body"] >>
                   ELSE << [severity |-> ERROR, msg |-> "err"] >>
     /\ pc # "exited" => outcome = "running" /\ ENABLED Next

C4_Witness ==
  /\ outcome = "exit1"
  /\ err.response = "notjson"
  /\ Len(log) = 1

\* C5: the remote handle is opened once, right before synchronize, and
\* closed once on every way out of the with block; it is closed before
\* anything is logged and before the process ends, so that no run ends
\* with an open handle.
C5_ScopedHandle ==
  /\ calls.open <= 1
  /\ calls.close <= calls.open
  /\ pc = "with" => calls.open = 1 /\ calls.close = 0 /\ calls.synchronize = 0
  /\ calls.synchronize = 1 => calls.open = 1
  /\ (pc \in {"except", "response", "sysexit"} \/ log # <<>>) => calls.close = 1
  /\ pc = "exited" => calls.close = calls.open
  /\ (pc = "exited" /\ calls.synchronize = 1) => calls.close = 1

C5_Witness ==
  /\ pc = "exited"
  /\ err.kind = "Other"
  /\ calls.synchronize = 1
  /\ calls.close = 1

\* C6: the logged exit with status 1 is taken exactly when an HTTPError is
\* raised in the remote branch; a failure of the Local Renderer (an
\* HTTPError too) and any other failure of the remote branch leave main
\* uncaught, with nothing logged.
C6_OnlyRemoteHTTPErrorCaught ==
  /\ outcome = "exit1" <=>
       (pc = "exited" /\ calls.synchronize = 1 /\ err.kind = "HTTPError")
  /\ log # <<>> => calls.synchronize = 1 /\ err.kind = "HTTPError"
  /\ (pc = "exited" /\ calls.process = 1 /\ err.kind # "none")
       => outcome = "raised" /\ log = <<>>
  /\ (pc = "exited" /\ calls.synchronize = 1 /\ err.kind = "Other")
       => outcome = "raised" /\ log = <<>>

C6_Witness ==
  /\ outcome = "raised"
  /\ calls.process = 1
  /\ err.kind = "HTTPError"

\* the five severities as the claim names them, and as the parser has them
FiveSeverities ==
  { <<"d", "e", "b", "u", "g">>, <<"i", "n", "f", "o">>,
    <<"w", "a", "r", "n">>, <<"e", "r", "r", "o", "r">>,
    <<"c", "r", "i", "t", "i", "c", "a", "l">> }

FiveChoices ==
  { <<"d", "e", "b", "u", "g">>, <<"i", "n", "f", "o">>,
    <<"w", "a", "r", "n", "i", "n", "g">>, <<"e", "r", "r", "o", "r">>,
    <<"c", "r", "i", "t", "i", "c", "a", "l">> }

\* C7 as stated: --loglevel accepts exactly debug, info, warn, error and
\* critical in any letter case, rejects every other value, and the field is
\* "info" when the flag is omitted.
C7_AsStated ==
  /\ \A i \in Where({"--loglevel"}) :
       (i = Len(argv) /\ LoglevelRejected) <=> Lower(argv[i].arg[1]) \notin FiveSeverities
  /\ (Parsing /\ ~Given("--loglevel")) => args.loglevel = <<"i", "n", "f", "o">>

\* C7 amended: --loglevel accepts exactly the lower-case strings debug,
\* info, warning, error and critical, compared case-sensitively; any other
\* value ("warn", "DEBUG", "Warn", "bogus") is rejected with exit status 2
\* before logging is configured, options or properties are built or a
\* collaborator is called; an accepted value is stored as given; when the
\* flag is omitted the field is "INFO", which configures the INFO level.
C7_LoglevelChoices ==
  /\ \A i \in Where({"--loglevel"}) :
       (i = Len(argv) /\ LoglevelRejected) <=> argv[i].arg[1] \notin FiveChoices
  /\ LoglevelRejected =>
       /\ outcome = "exit2"
       /\ level = WARN /\ options = PyNone /\ properties = PyNone
       /\ calls = NoCalls
  /\ (Parsing /\ Given("--loglevel") /\ ~LoglevelRejected)
       => args.loglevel = LastOf({"--loglevel"}).arg[1]
  /\ (Parsing /\ ~Given("--loglevel")) => args.loglevel = <<"I", "N", "F", "O">>
  /\ (Configured /\ ~Given("--loglevel")) => level = INFO

C7_Witness ==
  /\ Given("--loglevel")
  /\ LastOf({"--loglevel"}).arg[1] = <<"W", "a", "r", "n">>
  /\ LoglevelRejected
  /\ outcome = "exit2"

\* C8: without --headers, and with --headers followed by no token, the
\* header map of the arguments and of the properties is an empty map, not
\* None.
C8_HeadersDefaultEmpty ==
  (Configured /\ \A i \in Where({"--headers"}) : argv[i].arg = <<>>)
  => /\ args.headers = PyVal(<<>>)
     /\ properties = PyVal([headers |-> PyVal(<<>>)])

\* C9: each pair of flags writes one field and the last occurrence wins:
\* render_mermaid is true without either flag and else the polarity of the
\* last of the two; generated_by is the default banner without either flag,
\* None (not the default, not the empty string) when --no-generated-by is
\* the last of the two, and the given text when --generated-by is; giving
\* both flags of a pair is no error; the options carry the same values.
C9_PairedFlagsLastWins ==
  LET mermaid == {"--render-mermaid", "--no-render-mermaid"}
      banner == {"--generated-by", "--no-generated-by"}
      toggle == IF Where(mermaid) = {} THEN TRUE
                ELSE LastOf(mermaid).opt = "--render-mermaid"
      text == IF Where(banner) = {} THEN PyVal(DefaultBanner)
              ELSE IF LastOf(banner).opt = "--no-generated-by" THEN PyNone
              ELSE PyVal(LastOf(banner).arg[1])
  IN /\ Parsing => args.render_mermaid = toggle /\ args.generated_by = text
     /\ Configured => options = PyVal([generated_by |-> text, render_mermaid |-> toggle])
     /\ \A pair \in {mermaid, banner} :
          (Where(pair) # {} /\ Len(argv) \in Where(pair) /\ \A o \in pair : Given(o))
            => stderr \in {"", "the following arguments are required: mdpath"}

C9_Witness ==
  /\ Configured
  /\ Len(argv) = 2
  /\ argv[1].opt = "--render-mermaid"
  /\ argv[2].opt = "--no-render-mermaid"
  /\ options.v.render_mermaid = FALSE
  /\ options.v.generated_by = PyVal(DefaultBanner)

\* C10: pairs stored by an earlier --headers occurrence are still in the
\* map after a later occurrence is processed, a later occurrence winning
\* only on a key both have.
C10_HeadersAccumulate ==
  (Len(argv) = 2 /\ argv[1].opt = "--headers" /\ argv[2].opt = "--headers"
     /\ outcome = "running")
  => LET first == DictOf(SplitAll(argv[1].arg))
         second == DictOf(SplitAll(argv[2].arg))
     IN /\ ~args.headers.isNone
        /\ DOMAIN args.headers.v = DOMAIN first \cup DOMAIN second
        /\ \A k \in DOMAIN args.headers.v :
             args.headers.v[k] = IF k \in DOMAIN second THEN second[k] ELSE first[k]

====
